---- MODULE Spec2Model ----
(***************************************************************************)
(* Model of the editorial scraper: the sentence splitter and the PREP      *)
(* classifier (analyzePREP), the narrative generator (generateBestPractice)*)
(* the two GET handlers (src/app/api/scrape/route.ts and                   *)
(* src/unnamed/part_000) and the page (src/unnamed/part_001): its state    *)
(* hooks per browser tab, its two fetch functions and the saved list it    *)
(* keeps in localStorage.                                                  *)
(*                                                                         *)
(* A JavaScript string is a sequence of UTF-16 code units.  TLA+ strings   *)
(* are atomic, so a string is modelled as a sequence of one-unit strings;  *)
(* a Hangul syllable (one code unit) is written by its romanisation, e.g.  *)
(* <<"mun", "je">> is the two-unit keyword of line 48 of route.ts.         *)
(***************************************************************************)
EXTENDS Integers, Sequences, FiniteSets, TLC

\* ------------------------------------------------------------- bounds
\* Largest number of sentence fragments an enumerated article is made of.
MaxSentences == 4
\* Largest number of runs in a run-length enumerated text (splitter inputs).
MaxRuns == 4

\* ------------------------------------------------- JavaScript values
\* The value `undefined`: what Array.prototype.find returns when nothing
\* matches and what an out-of-range index reads.  It is a one-element
\* tuple whose element is no code unit, so it differs from every string.
Undefined == <<"#undefined">>

\* The value null: what searchParams.get returns for an absent parameter.
Null == <<"#null">>

\* The empty string.
Empty == <<>>

\* JavaScript truthiness of a string, undefined or null.
Truthy(v) == v /= Undefined /\ v /= Null /\ v /= Empty

\* a || b
JsOr(a, b) == IF Truthy(a) THEN a ELSE b

\* arr[i] with a 0-based index: undefined outside 0..length-1.
At(arr, i) == IF i >= 0 /\ i < Len(arr) THEN arr[i + 1] ELSE Undefined

\* Code units the regular expressions' \s matches.
WhiteSpace == {" ", "\n"}

\* The characters of the lookbehind class [.!?] of the splitter.
Terminators == {".", "!", "?"}

\* The characters /\d/ matches.
Digits == {"0", "1", "2", "3", "4", "5", "6", "7", "8", "9"}

\* s.slice(from, to) with 0-based from (inclusive) and to (exclusive).
Slice(s, from, to) ==
  LET t == IF to > Len(s) THEN Len(s) ELSE to
  IN  IF from >= t THEN Empty ELSE SubSeq(s, from + 1, t)

\* s.includes(kw)
Includes(s, kw) ==
  \E i \in 1..(Len(s) - Len(kw) + 1) : SubSeq(s, i, i + Len(kw) - 1) = kw

\* s.indexOf(kw), 0-based; -1 when kw does not occur.
IndexOf(s, kw) ==
  LET hits == {i \in 1..(Len(s) - Len(kw) + 1) : SubSeq(s, i, i + Len(kw) - 1) = kw}
  IN  IF hits = {} THEN -1
      ELSE (CHOOSE i \in hits : \A j \in hits : i <= j) - 1

\* s.trim()
Trim(s) ==
  LET ink == {i \in 1..Len(s) : s[i] \notin WhiteSpace}
  IN  IF ink = {} THEN Empty
      ELSE SubSeq(s, CHOOSE i \in ink : \A j \in ink : i <= j,
                     CHOOSE i \in ink : \A j \in ink : i >= j)

\* The 1-based position after the run of characters of `cls` that starts at
\* position q of s (q itself when s[q] is not in cls).
RECURSIVE RunEnd(_, _, _)
RunEnd(s, q, cls) ==
  IF q <= Len(s) /\ s[q] \in cls THEN RunEnd(s, q + 1, cls) ELSE q

\* ------------------------------------------------- sentence splitter
\* String.prototype.split with the separator /(?<=[.!?])\s+/: p is the
\* 1-based start of the pending piece, q the position the matcher tries.
RECURSIVE SplitAfterTerminator(_, _, _)
SplitAfterTerminator(s, p, q) ==
  IF q > Len(s) THEN <<SubSeq(s, p, Len(s))>>
  ELSE IF q >= 2 /\ s[q - 1] \in Terminators /\ s[q] \in WhiteSpace
       THEN LET e == RunEnd(s, q, WhiteSpace)
            IN  <<SubSeq(s, p, q - 1)>> \o SplitAfterTerminator(s, e, e)
       ELSE SplitAfterTerminator(s, p, q + 1)

\* The least trimmed length a fragment must exceed to count as a sentence.
MinSentenceLen == 10

\* A deviating filter that measures the fragment without trimming it.
IsUsable_untrimmed(s) == Len(s) > MinSentenceLen

\* The filter predicate of the splitter: s.trim().length > 10.
IsUsable(s) == Len(Trim(s)) > MinSentenceLen

\* const sentences = content.split(/(?<=[.!?])\s+/).filter(...)
SplitSentences(text) == SelectSeq(SplitAfterTerminator(text, 1, 1), IsUsable)

\* ------------------------------------------------------ title keywords
\* The bracketed tag the title is stripped of: "[", two syllables, "]".
Tag == <<"[", "sa", "seol", "]">>

\* title.replace(/\[..\]\s*/, ""): the first occurrence of the tag and the
\* white space after it are removed; a title without the tag is unchanged.
StripTag(t) ==
  LET i == IndexOf(t, Tag)
  IN  IF i = -1 THEN t
      ELSE SubSeq(t, 1, i) \o
           SubSeq(t, RunEnd(t, i + Len(Tag) + 1, WhiteSpace), Len(t))

\* String.prototype.split with the separator /[,\s]+/.
RECURSIVE SplitOnRuns(_, _, _, _)
SplitOnRuns(s, p, q, cls) ==
  IF q > Len(s) THEN <<SubSeq(s, p, Len(s))>>
  ELSE IF s[q] \in cls
       THEN LET e == RunEnd(s, q, cls)
            IN  <<SubSeq(s, p, q - 1)>> \o SplitOnRuns(s, e, e, cls)
       ELSE SplitOnRuns(s, p, q + 1, cls)

\* The length a title word must exceed to be a keyword.
MinKeywordLen == 2

\* The filter predicate of the title keywords: w.length > 2.
IsKeyword(w) == Len(w) > MinKeywordLen

\* const titleKeywords = title.replace(...).split(/[,\s]+/).filter(...)
TitleKeywords(t) ==
  SelectSeq(SplitOnRuns(StripTag(t), 1, 1, WhiteSpace \cup {","}), IsKeyword)

\* ------------------------------------------------------ keyword tables
\* const reasonKeywords = [...]
reasonKeywords ==
  << <<"ttae", "mun">>, <<"i", "yu">>, <<"wae", "nya">>, <<"geun", "geo">>,
     <<"gyeol", "ham">>, <<"mun", "je">>, <<"ha", "ja">>, <<"mo", "ho">>,
     <<"bul", "myeong", "hwak">>, <<"po", "gwal", "jeok">> >>

\* The literal patterns of examplePatterns (all but /\d+/).
exampleLiterals ==
  << <<"ye", "reul", " ", "deul", "eo">>, <<"gyeong", "u">>, <<"sa", "rye">>,
     <<"hyeon", "jang">>, <<"sil", "je">>, <<"hyeon", "jae">>, <<"gu", "jo">>,
     <<"gye", "yak">>, <<"gi", "eop">> >>

\* const conclusionKeywords = [...]
conclusionKeywords ==
  << <<"chok", "gu">>, <<"pil", "yo">>, <<"hae", "ya">>, <<"ba", "ran", "da">>,
     <<"doe", "eo", "ya">>, <<"yo", "gu">>, <<"gyeol", "guk">>,
     <<"tta", "ra", "seo">> >>

\* keywords.some((kw) => s.includes(kw))
SomeIncluded(s, keywords) ==
  \E k \in 1..Len(keywords) : Includes(s, keywords[k])

\* examplePatterns.some((p) => p.test(s)): /\d+/ or one of the literals.
MatchesExample(s) ==
  \/ \E i \in 1..Len(s) : s[i] \in Digits
  \/ SomeIncluded(s, exampleLiterals)

\* A deviating find that yields the last matching element.
FindFirst_last(arr, hit) ==
  IF hit = {} THEN Undefined
  ELSE arr[CHOOSE i \in hit : \A j \in hit : i >= j]

\* arr.find(test): the first element satisfying test, else undefined.
FindFirst(arr, hit) ==
  IF hit = {} THEN Undefined
  ELSE arr[CHOOSE i \in hit : \A j \in hit : i <= j]

\* The four roles, in the order the de-duplication pass processes them.
Roles == <<"point1", "reason", "example", "point2">>
RoleSet == {"point1", "reason", "example", "point2"}

\* ---------------------------------------------------------------- state
VARIABLES
  content,        \* analyzePREP's argument content
  title,          \* analyzePREP's argument title
  pc,             \* position in analyzePREP: start, split, select, return, done
  sentences,      \* const sentences
  preferred,      \* point1Source .. point2Source before the de-duplication
  usedSentences,  \* const usedSentences
  source,         \* point1Source .. point2Source after getUniqueSentence
  path,           \* which return of getUniqueSentence each role took
  role,           \* index in Roles of the next getUniqueSentence call
  result,         \* the value analyzePREP returned
  prevResult,     \* the value the previous call on the same input returned
  calls,          \* number of calls of analyzePREP started on this input
  handler,        \* which GET handler serves the request: "hk" or "mk"
  reqUrl,         \* searchParams.get("url") of the request
  gpc,            \* position in the GET handler ("off": no handler modelled)
  page,           \* what the selectors yield on the page last fetched
  link,           \* route.ts: fullLink; part_000: articleUrl
  fetches,        \* the URLs this request has fetched, in order
  outcomes,       \* how each of those fetches ended
  editorial,      \* const editorial
  bestPractice,   \* const bestPractice
  thrown,         \* the value thrown inside the handler, if any
  response,       \* the response the handler returned
  served,         \* number of requests received so far
  prevStatus,     \* status of the response to the previous request
  home,           \* per browser tab, the state hooks of the Home component
  localStorage,   \* the item stored under STORAGE_KEY (None when absent)
  requests,       \* the page's fetches that have not been answered yet
  lastWrite       \* the last localStorage.setItem: who, what, what was there

cvars == <<content, title, pc, sentences, preferred, usedSentences, source,
           path, role, result, prevResult, calls>>

gvars == <<handler, reqUrl, gpc, page, link, fetches, outcomes, editorial,
           bestPractice, thrown, response, served, prevStatus>>

pvars == <<home, localStorage, requests, lastWrite>>

vars == <<cvars, gvars, pvars>>

\* A result slot before the function has returned.
NoResult == [returned |-> FALSE]

\* ------------------------------------------------------------ classifier
\* Deviating positional indices, counted from 1 instead of 0.
PositionalIndex_oneBased(r, n) ==
  CASE r = "point1" -> 1
    [] r = "reason" -> 2
    [] r = "example" -> 3
    [] r = "point2" -> n

\* The index of each role's positional candidate in a list of n sentences:
\* sentences[0], sentences[1], sentences[2], sentences[sentences.length - 1].
PositionalIndex(r, n) ==
  CASE r = "point1" -> 0
    [] r = "reason" -> 1
    [] r = "example" -> 2
    [] r = "point2" -> n - 1

\* sentences.find(...) || sentences[k] || "" for each of the four roles.
PreferredOf(r, sents, t) ==
  LET kws == TitleKeywords(t)
      n   == Len(sents)
      found ==
        CASE r = "point1" ->
               FindFirst(sents, {i \in 1..n : SomeIncluded(sents[i], kws)})
          [] r = "reason" ->
               FindFirst(sents, {i \in 1..n : SomeIncluded(sents[i], reasonKeywords)})
          [] r = "example" ->
               FindFirst(sents, {i \in 1..n : MatchesExample(sents[i])})
          [] r = "point2" ->
               FindFirst(sents, {i \in 1..n : SomeIncluded(sents[i], conclusionKeywords)})
  IN  JsOr(JsOr(found, At(sents, PositionalIndex(r, n))), Empty)

\* Deviating fallback indices: point2 scans the whole list.
FallbackIndex_point2FromZero(r, sents) ==
  CASE r = "point1" -> 0
    [] r = "reason" -> 1
    [] r = "example" -> 2
    [] r = "point2" -> 0

\* The second argument of each getUniqueSentence call.
FallbackIndex(r, sents) ==
  CASE r = "point1" -> 0
    [] r = "reason" -> 1
    [] r = "example" -> 2
    [] r = "point2" -> Len(sents) - 1

\* A deviating used set that outlives the call (a set kept outside the
\* function).
NewUsedSet_kept == usedSentences

\* const usedSentences = new Set<string>()
NewUsedSet == {}

\* A deviating getUniqueSentence that gives the empty string when its scan
\* finds no unused sentence.
GetUniqueSentence_emptyWhenExhausted(pref, fallbackIndex, sents, used) ==
  IF Truthy(pref) /\ pref \notin used
  THEN [value |-> pref, used |-> used \cup {pref}, path |-> "preferred"]
  ELSE LET free == {i \in fallbackIndex..(Len(sents) - 1) : At(sents, i) \notin used}
       IN  IF free = {}
           THEN [value |-> Empty, used |-> used, path |-> "exhausted"]
           ELSE LET i == CHOOSE x \in free : \A y \in free : x <= y
                IN  [value |-> At(sents, i), used |-> used \cup {At(sents, i)},
                     path |-> "scan"]

\* getUniqueSentence(preferred, fallbackIndex): the value returned, the set
\* usedSentences afterwards, and which of the three returns was taken.
GetUniqueSentence(pref, fallbackIndex, sents, used) ==
  IF Truthy(pref) /\ pref \notin used
  THEN [value |-> pref, used |-> used \cup {pref}, path |-> "preferred"]
  ELSE LET free == {i \in fallbackIndex..(Len(sents) - 1) : At(sents, i) \notin used}
       IN  IF free = {}
           THEN [value |-> pref, used |-> used, path |-> "exhausted"]
           ELSE LET i == CHOOSE x \in free : \A y \in free : x <= y
                IN  [value |-> At(sents, i), used |-> used \cup {At(sents, i)},
                     path |-> "scan"]

\* A deviating length that quotes the whole title.
SummaryTitleLen_whole == Len(title)

\* Number of characters of the stripped title quoted in point1's summary.
SummaryTitleLen == 30

\* The four summary strings.  The fixed text of each template is written as
\* one unit; point1's template quotes title.replace(...).slice(0, 30).
SummaryOf(r, t) ==
  IF r = "point1"
  THEN <<"#point1-summary-head">> \o Slice(StripTag(t), 0, SummaryTitleLen)
         \o <<"#point1-summary-tail">>
  ELSE <<"#" \o r \o "-summary">>

\* The object analyzePREP returns.
AnalysisOf(src, t) ==
  [r \in RoleSet |-> [summary |-> SummaryOf(r, t), sourceText |-> src[r]]]

\* Values of the per-call locals before they are assigned.
NoSource == [r \in RoleSet |-> Undefined]
NoPath == [r \in RoleSet |-> "none"]

\* Line 32-34: split the content and filter the fragments.
SplitStep ==
  /\ pc = "start"
  /\ sentences' = SplitSentences(content)
  /\ pc' = "split"
  /\ UNCHANGED <<content, title, preferred, usedSentences, source, path, role,
                 result, prevResult, calls>>
  /\ UNCHANGED gvars
  /\ UNCHANGED pvars

\* Lines 37-69: the four preferred candidates, then a fresh used set.
SelectCandidates ==
  /\ pc = "split"
  /\ preferred' = [r \in RoleSet |-> PreferredOf(r, sentences, title)]
  /\ usedSentences' = NewUsedSet
  /\ role' = 1
  /\ pc' = "select"
  /\ UNCHANGED <<content, title, sentences, source, path, result, prevResult, calls>>
  /\ UNCHANGED gvars
  /\ UNCHANGED pvars

\* Lines 85-88: one call of getUniqueSentence, in the order of Roles.
AssignRole ==
  /\ pc = "select"
  /\ role <= Len(Roles)
  /\ LET r   == Roles[role]
         out == GetUniqueSentence(preferred[r], FallbackIndex(r, sentences),
                                  sentences, usedSentences)
     IN  /\ source' = [source EXCEPT ![r] = out.value]
         /\ usedSentences' = out.used
         /\ path' = [path EXCEPT ![r] = out.path]
  /\ role' = role + 1
  /\ pc' = IF role = Len(Roles) THEN "return" ELSE "select"
  /\ UNCHANGED <<content, title, sentences, preferred, result, prevResult, calls>>
  /\ UNCHANGED gvars
  /\ UNCHANGED pvars

\* Lines 90-107: build and return the analysis.
Return ==
  /\ pc = "return"
  /\ result' = [returned |-> TRUE, value |-> AnalysisOf(source, title)]
  /\ pc' = "done"
  /\ UNCHANGED <<content, title, sentences, preferred, usedSentences, source,
                 path, role, prevResult, calls>>
  /\ UNCHANGED gvars
  /\ UNCHANGED pvars

\* A further call of analyzePREP with the same arguments: the locals of the
\* finished call are gone, whatever outlives a call (nothing, in the source)
\* is kept.
CallAgain ==
  /\ pc = "done"
  /\ gpc = "off"
  /\ calls = 1
  /\ calls' = 2
  /\ prevResult' = result
  /\ result' = NoResult
  /\ sentences' = <<>>
  /\ preferred' = NoSource
  /\ source' = NoSource
  /\ path' = NoPath
  /\ role' = 1
  /\ pc' = "start"
  /\ UNCHANGED <<content, title, usedSentences>>
  /\ UNCHANGED gvars
  /\ UNCHANGED pvars

\* ---------------------------------------------------------- inputs
\* Ten syllables containing no keyword: with one more unit and a
\* terminator a fragment has trimmed length 12 > MinSentenceLen.
Pad == <<"ga", "na", "da", "ra", "ma", "ba", "sa", "a", "ja", "cha">>

\* The sentence fragments articles are made of: one without any keyword,
\* one with the keyword of the second title (and no other), one with a
\* reason keyword, one with digits, one with a conclusion keyword, one too
\* short to be a sentence, and one with the keyword of the first title
\* (which contains a reason keyword).
Fragments ==
  << Pad \o <<"ka", ".">>,
     Pad \o <<"yeon", "geum", "gae", "hyeok", ".">>,
     Pad \o <<"mun", "je", "!">>,
     Pad \o <<"3", "0", "?">>,
     Pad \o <<"pil", "yo", ".">>,
     <<"jjalb", "da", ".">>,
     Pad \o <<"mo", "ho", "han", ".">> >>

\* paragraphs.join(" "): the fragments chosen by the index sequence ix.
RECURSIVE Join(_)
Join(ix) ==
  IF ix = <<>> THEN Empty
  ELSE IF Len(ix) = 1 THEN Fragments[ix[1]]
       ELSE Fragments[ix[1]] \o <<" ">> \o Join(Tail(ix))

\* All sequences over S of length at most n.
SeqsUpTo(S, n) == UNION {[1..k -> S] : k \in 0..n}

\* The enumerated article contents.
Contents == {Join(ix) : ix \in SeqsUpTo(1..Len(Fragments), MaxSentences)}

\* The enumerated titles: the tag followed by a three-syllable word that is
\* also a reason keyword plus one syllable, and the tag followed by a
\* four-syllable word; the two-syllable words are no keywords.
Titles ==
  { Tag \o <<" ", "mo", "ho", "han", " ", "jeong", "chaek">>,
    Tag \o <<" ", "yeon", "geum", "gae", "hyeok", " ", "non", "ui">> }

\* A value slot nothing has been stored in.
None == [set |-> FALSE]

\* No GET handler takes part: analyzePREP is called directly.
InitNoHandler ==
  /\ handler = "none"
  /\ reqUrl = Undefined
  /\ gpc = "off"
  /\ page = None
  /\ link = Undefined
  /\ fetches = <<>>
  /\ outcomes = <<>>
  /\ editorial = None
  /\ bestPractice = None
  /\ thrown = None
  /\ response = None
  /\ served = 0
  /\ prevStatus = 0

\* The locals of analyzePREP before a call, and the call bookkeeping.
InitLocals ==
  /\ sentences = <<>>
  /\ preferred = NoSource
  /\ usedSentences = {}
  /\ source = NoSource
  /\ path = NoPath
  /\ role = 1
  /\ result = NoResult
  /\ prevResult = NoResult
  /\ calls = 1

\* No page takes part: no tab is open and nothing is stored.
InitNoPage ==
  /\ home = [t \in {} |-> None]
  /\ localStorage = None
  /\ requests = <<>>
  /\ lastWrite = None

\* analyzePREP is entered, called directly.
InitCall ==
  /\ pc = "start"
  /\ InitLocals
  /\ InitNoHandler
  /\ InitNoPage

\* The classifier on every enumerated article and title.
Init ==
  /\ content \in Contents
  /\ title \in Titles
  /\ InitCall

Next ==
  \/ SplitStep
  \/ SelectCandidates
  \/ AssignRole
  \/ Return
  \/ CallAgain

Spec == Init /\ [][Next]_vars

\* ------------------------------------------------ splitter inputs
\* The characters the run-length enumerated texts are made of: a letter, a
\* terminator and a white-space character.
RunChars == {"a", ".", " "}

\* The lengths of a run: short ones, and those at and just above the
\* sentence threshold.
RunLens == {1, 3, MinSentenceLen, MinSentenceLen + 1}

\* The text made of the runs rs, each a pair <<character, length>>.
RECURSIVE Expand(_)
Expand(rs) ==
  IF rs = <<>> THEN Empty
  ELSE [i \in 1..rs[1][2] |-> rs[1][1]] \o Expand(Tail(rs))

\* The run-length enumerated texts.
RunTexts == {Expand(rs) : rs \in SeqsUpTo(RunChars \X RunLens, MaxRuns)}

\* The splitter on every run-length enumerated text.
InitSplit ==
  /\ content \in RunTexts
  /\ title = Empty
  /\ InitCall

NextSplit == SplitStep

SpecSplit == InitSplit /\ [][NextSplit]_vars

\* ------------------------------------------------------ GET handlers
\* Largest number of anchors on an enumerated listing page.
MaxAnchors == 2
\* Largest number of requests a handler run receives.
MaxRequests == 2

\* s.startsWith(prefix)
StartsWith(s, prefix) ==
  Len(s) >= Len(prefix) /\ SubSeq(s, 1, Len(prefix)) = prefix

\* s.replace(pat, ""): the first occurrence of the literal pat is removed.
RemoveFirst(s, pat) ==
  LET i == IndexOf(s, pat)
  IN  IF i = -1 THEN s
      ELSE SubSeq(s, 1, i) \o SubSeq(s, i + Len(pat) + 1, Len(s))

\* The texts arr[i].trim(), in order.
TrimAll(arr) == [i \in 1..Len(arr) |-> Trim(arr[i])]

\* arr.join(sep)
RECURSIVE JoinWith(_, _)
JoinWith(arr, sep) ==
  IF arr = <<>> THEN Empty
  ELSE IF Len(arr) = 1 THEN arr[1]
       ELSE arr[1] \o sep \o JoinWith(Tail(arr), sep)

\* A URL is written as the sequence of its parts: "http", the rest of the
\* origin, a path prefix, and the digits of an article number.
Http == <<"http">>
HkOrigin == <<"http", "s://www.hankyung.com">>
HkListUrl == HkOrigin \o <<"/opinion/0001">>
MkOrigin == <<"http", "s://www.mk.co.kr">>
MkListUrl == MkOrigin \o <<"/opinion/editorial/">>

\* What new Date() formats to; the clock is outside the model.
Today == <<"#today">>

\* The placeholder texts of a missing title and a missing body (thirteen
\* code units each, the last word of four syllables common to both).
TitlePlaceholder ==
  <<"je", "mok", "eul", " ", "chaj", "eul", " ", "su", " ", "eobs", "seup", "ni", "da">>
ContentPlaceholder ==
  <<"bon", "mun", "eul", " ", "chaj", "eul", " ", "su", " ", "eobs", "seup", "ni", "da">>

\* The fixed user-facing text of the error response (transliterated).
UserMessage == "saseoreul gajyeooneunde silpaehaessseumnida. jamsi hu dasi sidohaejuseyo."

\* An Error object with the given message, and a thrown value that is no Error.
ErrorOf(msg) == [set |-> TRUE, isError |-> TRUE, message |-> msg]
NonError == [set |-> TRUE, isError |-> FALSE, message |-> "#no-message"]

\* The message of the TypeError text.length raises when text is undefined.
TypeErrorMessage == "Cannot read properties of undefined (reading 'length')"

\* res.ok
IsOk(status) == status >= 200 /\ status <= 299

\* How a fetch can end: the promise rejects (with an Error or with some other
\* value), or a response arrives with a status, a body that can or cannot be
\* read, and the page the body parses to.
Outcomes(pages) ==
  {[kind |-> "reject", error |-> e, status |-> 0, readable |-> FALSE, page |-> None]
     : e \in {ErrorOf("fetch failed"), NonError}}
  \cup {[kind |-> "response", error |-> None, status |-> 404, readable |-> TRUE, page |-> None]}
  \cup {[kind |-> "response", error |-> None, status |-> 200, readable |-> FALSE, page |-> None]}
  \cup {[kind |-> "response", error |-> None, status |-> 200, readable |-> TRUE, page |-> p]
          : p \in pages}

\* The summary of an outcome kept in `outcomes`.
OutcomeTag(o) ==
  IF o.kind = "reject" THEN "reject"
  ELSE IF ~IsOk(o.status) THEN "status"
  ELSE IF ~o.readable THEN "unreadable"
  ELSE "ok"

\* The message of the Error each handler throws on a non-2xx status.
StatusMessage(h, step, status) ==
  LET what == IF step = "list-fetch" THEN "Failed to fetch editorial list"
              ELSE "Failed to fetch article"
  IN  IF h = "hk" THEN what
      ELSE what \o " (HTTP " \o ToString(status) \o ")"

\* ------------------------------------------------- route.ts: pages
\* Title texts found on pages: the two enumerated titles.
TitleA == Tag \o <<" ", "mo", "ho", "han", " ", "jeong", "chaek">>
TitleB == Tag \o <<" ", "yeon", "geum", "gae", "hyeok", " ", "non", "ui">>

\* The anchors of the listing page of route.ts: text and href.
HkAnchors ==
  { [text |-> TitleA, href |-> <<"/article/", "1">>],
    [text |-> TitleB, href |-> HkOrigin \o <<"/article/", "2">>],
    [text |-> SubSeq(TitleA, 5, Len(TitleA)), href |-> <<"/article/", "3">>],
    [text |-> TitleB, href |-> Undefined] }

HkListPages == {[anchors |-> a] : a \in SeqsUpTo(HkAnchors, MaxAnchors)}

\* The first anchor whose text holds the tag and whose href holds "/article/".
HkFirstEditorialLink(anchors) ==
  LET hits == {i \in 1..Len(anchors) :
                 /\ Includes(anchors[i].text, Tag)
                 /\ Truthy(anchors[i].href)
                 /\ Includes(anchors[i].href, <<"/article/">>)}
  IN  IF hits = {} THEN Undefined
      ELSE anchors[CHOOSE i \in hits : \A j \in hits : i <= j].href

\* articleLink.startsWith("http") ? articleLink : origin + articleLink
HkFullLink(l) == IF StartsWith(l, Http) THEN l ELSE HkOrigin \o l

\* An article page of route.ts on which every selector yields nothing.
HkBlankPage ==
  [headline |-> Empty, articleHeadline |-> Empty, h1 |-> Empty,
   hasBody |-> FALSE, paragraphs |-> <<>>, bodyText |-> Empty,
   articleBody |-> Empty, articleContent |-> Empty, dateText |-> Empty]

\* The enumerated article pages of route.ts: nothing found; a headline and
\* three paragraphs, one of them a copyright line; a title in the last
\* selector and a body too short for a sentence; no title and a short body;
\* title and body under the alternative selectors.
HkArticlePages ==
  { HkBlankPage,
    [HkBlankPage EXCEPT
       !.headline = TitleA, !.hasBody = TRUE,
       !.paragraphs = << Fragments[1] \o <<" ">> \o Fragments[3] \o <<" ">>,
                         <<"(c)", " ">> \o Fragments[4],
                         Fragments[5] >>,
       !.dateText = <<"2", "0", "2", "4", ".", "0", "5", ".", "0", "1">>],
    [HkBlankPage EXCEPT
       !.h1 = <<" ">> \o TitleB, !.hasBody = TRUE,
       !.bodyText = <<"\n">> \o Fragments[6] \o <<" ">>],
    [HkBlankPage EXCEPT !.hasBody = TRUE, !.bodyText = Fragments[6]],
    [HkBlankPage EXCEPT
       !.articleHeadline = TitleB,
       !.articleContent = Fragments[2] \o <<" ">> \o Fragments[4]] }

\* if (text && !text.includes(copyright sign) && !text.includes("ADVERTISEMENT"))
KeepParagraph(text) ==
  /\ Truthy(text)
  /\ ~Includes(text, <<"(c)">>)
  /\ ~Includes(text, <<"ADVERTISEMENT">>)

\* The title route.ts extracts: three selectors in order.
HkTitle(p) == JsOr(JsOr(Trim(p.headline), Trim(p.articleHeadline)), Trim(p.h1))

\* The content route.ts extracts.
HkContent(p) ==
  LET paras == SelectSeq(TrimAll(p.paragraphs), KeepParagraph)
      body  == IF ~p.hasBody THEN Empty
               ELSE IF Len(paras) > 0 THEN JoinWith(paras, <<"\n", "\n">>)
               ELSE Trim(p.bodyText)
  IN  IF Truthy(body) THEN body
      ELSE JsOr(Trim(p.articleBody), Trim(p.articleContent))

\* const editorial of route.ts.
HkEditorial(p, l) ==
  [title |-> JsOr(HkTitle(p), TitlePlaceholder),
   content |-> JsOr(HkContent(p), ContentPlaceholder),
   date |-> JsOr(Trim(p.dateText), Today),
   link |-> l]

\* ------------------------------------------- route.ts: narrative
\* The maxLen arguments of the three extractKeyPhrase calls.
ReasonMaxLen == 80
ExampleMaxLen == 80
Point2MaxLen == 60

\* shortened.lastIndexOf(" "), 0-based; -1 when there is no space.
LastIndexOfSpace(s) ==
  LET hits == {i \in 1..Len(s) : s[i] = " "}
  IN  IF hits = {} THEN -1
      ELSE (CHOOSE i \in hits : \A j \in hits : i >= j) - 1

\* A deviating helper that always cuts at maxLen.
ExtractKeyPhrase_hardCut(text, maxLen) ==
  IF Len(text) <= maxLen THEN text
  ELSE Slice(text, 0, maxLen) \o <<".", ".", ".">>

\* extractKeyPhrase(text, maxLen), for a string text.
ExtractKeyPhrase(text, maxLen) ==
  IF Len(text) <= maxLen THEN text
  ELSE LET shortened == Slice(text, 0, maxLen)
           lastSpace == LastIndexOfSpace(shortened)
       IN  IF lastSpace > 0
           THEN Slice(shortened, 0, lastSpace) \o <<".", ".", ".">>
           ELSE shortened \o <<".", ".", ".">>

\* generateBestPractice of route.ts: text.length throws a TypeError when a
\* sourceText is undefined.  The fixed text of a template is one unit.
HkBestPractice(t, analysis) ==
  LET texts == {analysis[r].sourceText : r \in {"reason", "example", "point2"}}
  IN  IF Undefined \in texts
      THEN [throws |-> TRUE, value |-> None]
      ELSE [throws |-> FALSE,
            value |->
              [point1 |-> <<"#hk-point1-head">> \o StripTag(t) \o <<"#hk-point1-tail">>,
               reason |-> <<"#hk-reason-head">>
                            \o ExtractKeyPhrase(analysis["reason"].sourceText, ReasonMaxLen)
                            \o <<"#hk-reason-tail">>,
               example |-> <<"#hk-example-head">>
                            \o ExtractKeyPhrase(analysis["example"].sourceText, ExampleMaxLen)
                            \o <<"#hk-example-tail">>,
               point2 |-> <<"#hk-point2-head">>
                            \o ExtractKeyPhrase(analysis["point2"].sourceText, Point2MaxLen)
                            \o <<"#hk-point2-tail">>]]

\* --------------------------------------------- part_000: pages
\* The least length of a usable listing title.
MinTitleLen == 5

\* The anchors the selector a[href*="/news/editorial/"] yields: href, the
\* anchor's text, the text of a heading inside it, and the text of a heading
\* in the closest li or div.
MkAnchors ==
  { [href |-> <<"/news/editorial/", "1", "1">>, text |-> TitleA,
     inner |-> Empty, closest |-> Empty],
    [href |-> MkOrigin \o <<"/news/editorial/", "1", "1">>,
     text |-> SubSeq(TitleB, 6, Len(TitleB)), inner |-> Empty, closest |-> Empty],
    [href |-> <<"/news/editorial/">>, text |-> SubSeq(TitleA, 6, Len(TitleA)),
     inner |-> Empty, closest |-> Empty],
    [href |-> <<"/news/editorial/", "1", "1">>, text |-> <<" ">>,
     inner |-> Empty, closest |-> Empty],
    [href |-> <<"/news/editorial/", "2", "2">>, text |-> <<"non", "ui">>,
     inner |-> Empty, closest |-> <<" ">> \o TitleB] }

MkListPages == {[anchors |-> a] : a \in SeqsUpTo(MkAnchors, MaxAnchors)}

\* href.match(/\/news\/editorial\/(\d+)/) is not null.
MatchesArticleHref(href) ==
  \E i \in 1..(Len(href) - 1) : href[i] = "/news/editorial/" /\ href[i + 1] \in Digits

\* !title || title.length < 5
TitleTooShort(t) == ~Truthy(t) \/ Len(t) < MinTitleLen

\* The callback of .each over the remaining anchors, given the links seen so
\* far: the items pushed to editorials, in order.
RECURSIVE ScanAnchors(_, _)
ScanAnchors(anchors, seenLinks) ==
  IF anchors = <<>> THEN <<>>
  ELSE LET a    == Head(anchors)
           rest == Tail(anchors)
           t1   == Trim(a.text)
           t2   == IF TitleTooShort(t1) THEN Trim(a.inner) ELSE t1
           t3   == IF TitleTooShort(t2) THEN Trim(a.closest) ELSE t2
       IN  IF ~Truthy(a.href) \/ a.href \in seenLinks THEN ScanAnchors(rest, seenLinks)
           ELSE IF ~MatchesArticleHref(a.href) THEN ScanAnchors(rest, seenLinks)
           ELSE IF TitleTooShort(t3) THEN ScanAnchors(rest, seenLinks \cup {a.href})
           ELSE << [title |-> IF Includes(t3, Tag) THEN t3 ELSE Tag \o <<" ">> \o t3,
                    link |-> IF StartsWith(a.href, Http) THEN a.href
                             ELSE MkOrigin \o a.href,
                    date |-> Today] >>
                \o ScanAnchors(rest, seenLinks \cup {a.href})

\* const seenLinks = new Set<string>()
NewSeenLinks == {}

\* fetchEditorialList's return value for a parsed page.
EditorialList(p) == ScanAnchors(p.anchors, NewSeenLinks)

\* The suffix removed from og:title and <title>.
TitleSuffix == <<" ", "-", " ", "mae", "il", "gyeong", "je">>

\* An article page of part_000 on which every selector yields nothing.
MkBlankPage ==
  [h2 |-> Empty, ogTitle |-> Undefined, docTitle |-> Empty, hasBody |-> FALSE,
   bodyHtml |-> Empty, ogDescription |-> Undefined, paperDate |-> Undefined,
   published |-> Undefined]

\* The enumerated article pages of part_000: nothing found; a heading and a
\* body of four sentences with markup; only meta tags, with a description too
\* short for a sentence; a body that is empty once the markup is removed.
MkArticlePages ==
  { MkBlankPage,
    [MkBlankPage EXCEPT
       !.h2 = TitleA, !.hasBody = TRUE,
       !.bodyHtml = <<"<p>">> \o Fragments[1] \o <<"<br>">> \o Fragments[3]
                      \o <<"<br/>">> \o Fragments[4] \o <<" ">> \o Fragments[5]
                      \o <<"</p>">>,
       !.paperDate = <<"2024", "-", "05", "-", "01">>],
    [MkBlankPage EXCEPT
       !.ogTitle = TitleB \o TitleSuffix, !.ogDescription = Fragments[6],
       !.published = <<"2024", "05", "01">>],
    [MkBlankPage EXCEPT
       !.docTitle = TitleB \o TitleSuffix \o <<" ">>, !.hasBody = TRUE,
       !.bodyHtml = <<"<p>", " ", "</p>">>,
       !.ogDescription = Fragments[2] \o <<" ">> \o Fragments[3]] }

\* The markup units: line breaks and the other tags.
BreakTags == {"<br>", "<br/>", "<br />", "<BR>"}
OtherTags == {"<p>", "</p>", "<div>", "</div>"}

\* .replace(/<br\s*\/?>/gi, "\n")
ReplaceBreaks(html) ==
  [i \in 1..Len(html) |-> IF html[i] \in BreakTags THEN "\n" ELSE html[i]]

\* .replace(/<[^>]*>/g, "")
IsText(unit) == unit \notin BreakTags \cup OtherTags
StripTags(html) == SelectSeq(html, IsText)

\* The title part_000 extracts.
MkTitle(p) ==
  JsOr(JsOr(Trim(p.h2),
            IF p.ogTitle = Undefined THEN Undefined
            ELSE RemoveFirst(p.ogTitle, TitleSuffix)),
       Trim(RemoveFirst(p.docTitle, TitleSuffix)))

\* The content part_000 extracts.
MkContent(p) ==
  LET body == IF p.hasBody
              THEN JsOr(Trim(StripTags(ReplaceBreaks(p.bodyHtml))), Empty)
              ELSE Empty
  IN  IF Truthy(body) THEN body ELSE JsOr(p.ogDescription, Empty)

\* dateMatch[1].replace(/-/g, ".")
Dotted(d) == [i \in 1..Len(d) |-> IF d[i] = "-" THEN "." ELSE d[i]]

\* The date part_000 extracts: from the inline script, else from the meta
\* tag (year, month, day joined by dots), else the current date.
MkDate(p) ==
  IF p.paperDate /= Undefined THEN Dotted(p.paperDate)
  ELSE IF Truthy(p.published) THEN JoinWith([i \in 1..3 |-> <<p.published[i]>>], <<".">>)
  ELSE Today

\* A deviating editorial whose link is the listing URL.
MkEditorial_listLink(p, articleUrl) ==
  [title |-> JsOr(MkTitle(p), TitlePlaceholder),
   content |-> JsOr(MkContent(p), ContentPlaceholder),
   date |-> MkDate(p),
   link |-> MkListUrl]

\* fetchEditorialDetail's return value for a parsed page.
MkEditorial(p, articleUrl) ==
  [title |-> JsOr(MkTitle(p), TitlePlaceholder),
   content |-> JsOr(MkContent(p), ContentPlaceholder),
   date |-> MkDate(p),
   link |-> articleUrl]

\* `${v}` in a template literal.
Interpolated(v) ==
  IF v = Undefined THEN <<"u", "n", "d", "e", "f", "i", "n", "e", "d">> ELSE v

\* generateBestPractice of part_000.
MkBestPractice(t, analysis) ==
  [point1 |-> <<"\"">> \o StripTag(t) \o <<"#mk-point1-lead">>
                \o Interpolated(analysis["point1"].sourceText),
   reason |-> <<"#mk-reason-lead">> \o Interpolated(analysis["reason"].sourceText),
   example |-> <<"#mk-example-lead">> \o Interpolated(analysis["example"].sourceText),
   point2 |-> <<"#mk-point2-lead">> \o Interpolated(analysis["point2"].sourceText)]

\* JSON.stringify of the analysis: a property whose value is undefined is
\* left out.
JsonAnalysis(analysis) ==
  [r \in RoleSet |->
     IF analysis[r].sourceText = Undefined
     THEN [summary |-> analysis[r].summary]
     ELSE analysis[r]]

\* ------------------------------------------------ summary inputs
\* Titles around the length quoted in point1's summary: two that agree on
\* their first 30 characters after the tag and differ in the 31st, one of
\* exactly 30 characters without a tag, and a short one.
ThirtySyllables == Pad \o Pad \o Pad
SummaryTitles ==
  { Tag \o <<" ">> \o ThirtySyllables \o <<"ka">>,
    Tag \o <<" ">> \o ThirtySyllables \o <<"ta">>,
    ThirtySyllables,
    Tag \o <<" ", "mo", "ho", "han">> }

\* Most fragments an article of the summary inputs is made of.
MaxSummaryFragments == 2

\* The articles of the summary inputs.
SummaryContents ==
  {Join(ix) : ix \in SeqsUpTo(1..Len(Fragments), MaxSummaryFragments)}

\* The classifier on the summary inputs.
InitSummary ==
  /\ content \in SummaryContents
  /\ title \in SummaryTitles
  /\ InitCall

NextSummary ==
  \/ SplitStep
  \/ SelectCandidates
  \/ AssignRole
  \/ Return

SpecSummary == InitSummary /\ [][NextSummary]_vars

\* ------------------------------------------------ GET: the handlers
\* The url parameters of the enumerated requests: absent, empty, an article.
UrlParams == {Null, Empty, MkOrigin \o <<"/news/editorial/", "1", "1">>}

\* A deviating try block that wraps the two fetches only.
TrySteps_fetchOnly == {"list-fetch", "article-fetch"}

\* The steps of a handler that lie inside its try block: all of them.
TrySteps == {"list-fetch", "find-link", "article-fetch", "extract", "narrate"}

\* throw err at the given step: control passes to the catch clause when the
\* step is inside the try block, and leaves the handler otherwise.
Throw(step, err) ==
  /\ thrown' = err
  /\ gpc' = IF step \in TrySteps THEN "catch" ELSE "crashed"

\* await fetch(url), the res.ok test and await res.text() with cheerio.load:
\* on success the handler continues at `next` with the parsed page.
Fetch(step, url, pages, next) ==
  \E o \in Outcomes(pages) :
    /\ fetches' = Append(fetches, url)
    /\ outcomes' = Append(outcomes, OutcomeTag(o))
    /\ IF o.kind = "reject" THEN Throw(step, o.error) /\ page' = page
       ELSE IF ~IsOk(o.status)
            THEN Throw(step, ErrorOf(StatusMessage(handler, step, o.status))) /\ page' = page
       ELSE IF ~o.readable THEN Throw(step, ErrorOf("terminated")) /\ page' = page
       ELSE gpc' = next /\ page' = o.page /\ thrown' = thrown

\* The locals of analyzePREP when it is called with (c, t).
EnterAnalyze(c, t) ==
  /\ content' = c
  /\ title' = t
  /\ pc' = "start"
  /\ UNCHANGED <<sentences, preferred, usedSentences, source, path, role,
                 result, prevResult, calls>>

\* A request arrives: a fresh invocation of one of the two handlers.
Request ==
  /\ gpc \in {"idle", "responded"}
  /\ served < MaxRequests
  /\ \E h \in {"hk", "mk"}, u \in UrlParams : handler' = h /\ reqUrl' = u
  /\ gpc' = "entered"
  /\ served' = served + 1
  /\ prevStatus' = IF response = None THEN 0 ELSE response.status
  /\ page' = None /\ link' = Undefined /\ fetches' = <<>> /\ outcomes' = <<>>
  /\ editorial' = None /\ bestPractice' = None /\ thrown' = None /\ response' = None
  /\ content' = Empty /\ title' = Empty /\ pc' = "idle"
  /\ sentences' = <<>> /\ preferred' = NoSource /\ usedSentences' = {}
  /\ source' = NoSource /\ path' = NoPath /\ role' = 1
  /\ result' = NoResult /\ prevResult' = NoResult /\ calls' = 1
  /\ UNCHANGED pvars

\* route.ts 136-152: fetch and parse the listing page.
HkFetchList ==
  /\ gpc = "entered" /\ handler = "hk"
  /\ Fetch("list-fetch", HkListUrl, HkListPages, "hk-list")
  /\ UNCHANGED <<handler, reqUrl, link, editorial, bestPractice, response,
                 served, prevStatus>>
  /\ UNCHANGED cvars
  /\ UNCHANGED pvars

\* route.ts 155-172: the first editorial link, made absolute.
HkFindLink ==
  /\ gpc = "hk-list"
  /\ LET l == HkFirstEditorialLink(page.anchors)
     IN  IF ~Truthy(l)
         THEN Throw("find-link", ErrorOf("No editorial found")) /\ link' = link
         ELSE link' = HkFullLink(l) /\ gpc' = "hk-article" /\ thrown' = thrown
  /\ UNCHANGED <<handler, reqUrl, page, fetches, outcomes, editorial,
                 bestPractice, response, served, prevStatus>>
  /\ UNCHANGED cvars
  /\ UNCHANGED pvars

\* route.ts 175-187: fetch and parse the article page.
HkFetchArticle ==
  /\ gpc = "hk-article"
  /\ Fetch("article-fetch", link, HkArticlePages, "hk-page")
  /\ UNCHANGED <<handler, reqUrl, link, editorial, bestPractice, response,
                 served, prevStatus>>
  /\ UNCHANGED cvars
  /\ UNCHANGED pvars

\* route.ts 190-237: build the editorial and call analyzePREP.
HkExtract ==
  /\ gpc = "hk-page"
  /\ LET e == HkEditorial(page, link)
     IN  /\ editorial' = [set |-> TRUE, value |-> e]
         /\ EnterAnalyze(e.content, e.title)
  /\ gpc' = "analyze"
  /\ UNCHANGED <<handler, reqUrl, page, link, fetches, outcomes, bestPractice,
                 thrown, response, served, prevStatus>>
  /\ UNCHANGED pvars

\* route.ts 240-246: generateBestPractice and the success response.
HkNarrate ==
  /\ gpc = "analyze" /\ handler = "hk" /\ pc = "done"
  /\ LET bp == HkBestPractice(title, result.value)
     IN  IF bp.throws
         THEN /\ Throw("narrate", ErrorOf(TypeErrorMessage))
              /\ UNCHANGED <<bestPractice, response>>
         ELSE /\ bestPractice' = [set |-> TRUE, value |-> bp.value]
              /\ response' =
                   [set |-> TRUE, status |-> 200,
                    body |-> [editorial |-> editorial.value,
                              aiAnalysis |-> JsonAnalysis(result.value),
                              bestPractice |-> bp.value]]
              /\ gpc' = "responded"
              /\ thrown' = thrown
  /\ UNCHANGED <<handler, reqUrl, page, link, fetches, outcomes, editorial,
                 served, prevStatus>>
  /\ UNCHANGED cvars
  /\ UNCHANGED pvars

\* part_000 298-299 with 166-183: no url, fetch and parse the listing page.
MkFetchList ==
  /\ gpc = "entered" /\ handler = "mk" /\ ~Truthy(reqUrl)
  /\ Fetch("list-fetch", MkListUrl, MkListPages, "mk-list")
  /\ UNCHANGED <<handler, reqUrl, link, editorial, bestPractice, response,
                 served, prevStatus>>
  /\ UNCHANGED cvars
  /\ UNCHANGED pvars

\* part_000 185-222 and 300: build the listing and respond with it.
MkReturnList ==
  /\ gpc = "mk-list"
  /\ response' = [set |-> TRUE, status |-> 200,
                  body |-> [editorials |-> EditorialList(page)]]
  /\ gpc' = "responded"
  /\ UNCHANGED <<handler, reqUrl, page, link, fetches, outcomes, editorial,
                 bestPractice, thrown, served, prevStatus>>
  /\ UNCHANGED cvars
  /\ UNCHANGED pvars

\* part_000 304 with 227-243: fetch and parse the article page.
MkFetchArticle ==
  /\ gpc = "entered" /\ handler = "mk" /\ Truthy(reqUrl)
  /\ link' = reqUrl
  /\ Fetch("article-fetch", reqUrl, MkArticlePages, "mk-page")
  /\ UNCHANGED <<handler, reqUrl, editorial, bestPractice, response,
                 served, prevStatus>>
  /\ UNCHANGED cvars
  /\ UNCHANGED pvars

\* part_000 245-290 and 305: build the editorial and call analyzePREP.
MkExtract ==
  /\ gpc = "mk-page"
  /\ LET e == MkEditorial(page, link)
     IN  /\ editorial' = [set |-> TRUE, value |-> e]
         /\ EnterAnalyze(e.content, e.title)
  /\ gpc' = "analyze"
  /\ UNCHANGED <<handler, reqUrl, page, link, fetches, outcomes, bestPractice,
                 thrown, response, served, prevStatus>>
  /\ UNCHANGED pvars

\* part_000 306-312: generateBestPractice and the success response.
MkNarrate ==
  /\ gpc = "analyze" /\ handler = "mk" /\ pc = "done"
  /\ LET bp == MkBestPractice(title, result.value)
     IN  /\ bestPractice' = [set |-> TRUE, value |-> bp]
         /\ response' =
              [set |-> TRUE, status |-> 200,
               body |-> [editorial |-> editorial.value,
                         aiAnalysis |-> JsonAnalysis(result.value),
                         bestPractice |-> bp]]
  /\ gpc' = "responded"
  /\ UNCHANGED <<handler, reqUrl, page, link, fetches, outcomes, editorial,
                 thrown, served, prevStatus>>
  /\ UNCHANGED cvars
  /\ UNCHANGED pvars

\* The body of the error response.
ErrorBody(err) ==
  [error |-> UserMessage,
   details |-> IF err.isError THEN err.message ELSE "Unknown error"]

\* A deviating catch clause that starts the handler over instead of answering.
Catch_retry ==
  /\ gpc = "catch"
  /\ gpc' = "entered"
  /\ UNCHANGED <<handler, reqUrl, page, link, fetches, outcomes, editorial,
                 bestPractice, thrown, response, served, prevStatus>>
  /\ UNCHANGED cvars
  /\ UNCHANGED pvars

\* The catch clause of either handler: the 500 response.
Catch ==
  /\ gpc = "catch"
  /\ response' = [set |-> TRUE, status |-> 500, body |-> ErrorBody(thrown)]
  /\ gpc' = "responded"
  /\ UNCHANGED <<handler, reqUrl, page, link, fetches, outcomes, editorial,
                 bestPractice, thrown, served, prevStatus>>
  /\ UNCHANGED cvars
  /\ UNCHANGED pvars

\* The server before the first request.
InitServer ==
  /\ content = Empty
  /\ title = Empty
  /\ pc = "idle"
  /\ InitLocals
  /\ handler = "none"
  /\ reqUrl = Undefined
  /\ gpc = "idle"
  /\ page = None
  /\ link = Undefined
  /\ fetches = <<>>
  /\ outcomes = <<>>
  /\ editorial = None
  /\ bestPractice = None
  /\ thrown = None
  /\ response = None
  /\ served = 0
  /\ prevStatus = 0

\* The two handlers, with no page.
InitGet ==
  /\ InitServer
  /\ InitNoPage

NextGet ==
  \/ Request
  \/ HkFetchList
  \/ HkFindLink
  \/ HkFetchArticle
  \/ HkExtract
  \/ HkNarrate
  \/ MkFetchList
  \/ MkReturnList
  \/ MkFetchArticle
  \/ MkExtract
  \/ MkNarrate
  \/ Catch
  \/ SplitStep
  \/ SelectCandidates
  \/ AssignRole
  \/ Return

SpecGet == InitGet /\ [][NextGet]_vars

\* ------------------------------------------------ narrative inputs
\* Most runs a text of the narrative inputs is made of.
MaxPhraseRuns == 4

\* The texts generateBestPractice is given: runs of a letter or of spaces,
\* of lengths that put the text and its last space at, below and above the
\* two thresholds.
PhraseRunLens == {1, 19, 20, 40}
PhraseTexts ==
  {Expand(rs) : rs \in SeqsUpTo({"a", " "} \X PhraseRunLens, MaxPhraseRuns)}

\* generateBestPractice(title, aiAnalysis) of route.ts is about to be called
\* at line 240, with an analysis whose reason, example and point2 carry one
\* of the enumerated texts.
InitNarrate ==
  /\ \E x \in PhraseTexts :
       /\ content = x
       /\ source = [r \in RoleSet |-> IF r = "point1" THEN Empty ELSE x]
       /\ result = [returned |-> TRUE,
                    value |-> AnalysisOf([r \in RoleSet |->
                                            IF r = "point1" THEN Empty ELSE x],
                                         TitleA)]
       /\ editorial = [set |-> TRUE,
                       value |-> [title |-> TitleA, content |-> x,
                                  date |-> Today, link |-> HkListUrl]]
  /\ title = TitleA
  /\ pc = "done"
  /\ sentences = <<>>
  /\ preferred = NoSource
  /\ usedSentences = {}
  /\ path = NoPath
  /\ role = Len(Roles) + 1
  /\ prevResult = NoResult
  /\ calls = 1
  /\ handler = "hk"
  /\ reqUrl = Null
  /\ gpc = "analyze"
  /\ page = None
  /\ link = HkListUrl
  /\ fetches = <<>>
  /\ outcomes = <<>>
  /\ bestPractice = None
  /\ thrown = None
  /\ response = None
  /\ served = 1
  /\ prevStatus = 0
  /\ InitNoPage

NextNarrate == HkNarrate

SpecNarrate == InitNarrate /\ [][NextNarrate]_vars

\* ------------------------------------------------ analyzePREP as a function
\* Lines 85-88 as one computation: the getUniqueSentence calls from the k-th
\* role on, each with the used set the previous call left.
RECURSIVE AssignFrom(_, _, _, _, _)
AssignFrom(k, sents, pref, src, used) ==
  IF k > Len(Roles) THEN src
  ELSE LET r   == Roles[k]
           out == GetUniqueSentence(pref[r], FallbackIndex(r, sents), sents, used)
       IN  AssignFrom(k + 1, sents, pref, [src EXCEPT ![r] = out.value], out.used)

\* analyzePREP(content, title): the value the steps SplitStep .. Return build.
AnalyzePREP(c, t) ==
  LET sents == SplitSentences(c)
      pref  == [r \in RoleSet |-> PreferredOf(r, sents, t)]
  IN  AnalysisOf(AssignFrom(1, sents, pref, NoSource, NewUsedSet), t)

\* ------------------------------------------------ page: JSON
\* A JSON text is modelled by its syntax: a string, an object with its members
\* in the order they were written, an array, or a text that is not JSON.
StringDoc(s) == [kind |-> "string", value |-> s]
ObjectDoc(members) == [kind |-> "object", members |-> members]
ArrayDoc(items) == [kind |-> "array", items |-> items]
InvalidJson == [kind |-> "invalid"]

\* The text of no characters: a falsy string, and no JSON either.
EmptyText == [kind |-> "empty"]

\* JSON.stringify of an object whose properties hold strings or undefined:
\* the properties in the given order, those holding undefined left out.
StringMembers(obj, keys) ==
  LET present == SelectSeq(keys, LAMBDA k : k \in DOMAIN obj /\ obj[k] /= Undefined)
  IN  [i \in 1..Len(present) |-> <<present[i], StringDoc(obj[present[i]])>>]

\* The property order of the objects the page stores.
EditorialKeys == <<"title", "content", "date", "link">>
PrepKeys == <<"point1", "reason", "example", "point2">>

\* JSON.stringify of one SavedAnalysis.
EntryDoc(e) ==
  ObjectDoc(<< <<"id", StringDoc(e.id)>>,
               <<"editorial", ObjectDoc(StringMembers(e.editorial, EditorialKeys))>>,
               <<"prep", ObjectDoc(StringMembers(e.prep, PrepKeys))>>,
               <<"savedAt", StringDoc(e.savedAt)>> >>)

\* JSON.stringify(updated)
Stringify(list) == ArrayDoc([i \in 1..Len(list) |-> EntryDoc(list[i])])

\* JSON.parse of a valid text: objects become records of their members (the
\* last member of a name wins), arrays become sequences.
RECURSIVE Parse(_)
Parse(doc) ==
  CASE doc.kind = "string" -> doc.value
    [] doc.kind = "array" -> [i \in 1..Len(doc.items) |-> Parse(doc.items[i])]
    [] doc.kind = "object" ->
         LET ms == doc.members
             last(k) == CHOOSE i \in 1..Len(ms) :
                          /\ ms[i][1] = k
                          /\ \A j \in (i + 1)..Len(ms) : ms[j][1] /= k
         IN  [k \in {ms[i][1] : i \in 1..Len(ms)} |-> Parse(ms[last(k)][2])]

\* JSON.parse throws a SyntaxError.
ParseThrows(text) == text.kind \in {"invalid", "empty"}

\* ------------------------------------------------ page: state and inputs
\* Most entries a saved list may hold before the save button is left alone.
MaxSaved == 2

\* The browser tabs that may have the page open.
Tabs == {"A", "B"}

\* A value slot holding v.
Some(v) == [set |-> TRUE, value |-> v]

\* obj.k, which is undefined when the object has no such property.
Prop(obj, k) == IF k \in DOMAIN obj THEN obj[k] ELSE Undefined

\* The values `${Date.now()}-${Math.random()...}` may yield, and the values
\* new Date().toISOString() may yield.
Ids == {<<"id", "1">>, <<"id", "2">>}
Instants == {<<"2024", "-", "05", "-", "01", "T", "00", ":", "00", "Z">>}

\* The initial values of the state hooks, before the load effect has run.
NewHome ==
  [mounted |-> FALSE,
   editorialList |-> <<>>, isLoadingList |-> FALSE, selectedEditorial |-> None,
   editorial |-> None, aiAnalysis |-> None, bestPractice |-> None,
   isLoadingDetail |-> FALSE, error |-> None, savedAnalyses |-> <<>>]

\* The article pages behind the links of the page's listings: one with a
\* heading and a body of four sentences, one with meta tags only.
PageArticles == {p \in MkArticlePages : Truthy(p.h2) \/ Truthy(p.published)}

\* The listing pages the page's listings come from.
PageListPages == {p \in MkListPages : Len(p.anchors) = MaxAnchors}

\* The bodies of the 200 responses of part_000's GET: to a request without
\* url, and to a request for an article url.
ListBodies == {[editorials |-> EditorialList(p)] : p \in PageListPages}
DetailBody(p, url) ==
  LET e == MkEditorial(p, url)
      a == AnalyzePREP(e.content, e.title)
  IN  [editorial |-> e, aiAnalysis |-> JsonAnalysis(a),
       bestPractice |-> MkBestPractice(e.title, a)]
DetailBodies(url) == {DetailBody(p, url) : p \in PageArticles}

\* The message of the TypeError a rejected fetch carries.
FetchFailedMessage == "Failed to fetch"

\* How a fetch of the page can end: a 200 response with one of the bodies, the
\* handler's 500 response, or a rejection.
PageOutcomes(bodies) ==
  {[kind |-> "ok", body |-> b] : b \in bodies}
    \cup {[kind |-> "error", body |-> ErrorBody(ErrorOf("HTTP error"))],
          [kind |-> "reject"]}

\* The message the catch clause of either fetch function stores.
PageError(o) ==
  IF o.kind = "error" THEN Some(o.body.error) ELSE Some(FetchFailedMessage)

\* The editorial links the saved entries of a list carry.
SavedLinks(list) == {list[i].editorial.link : i \in 1..Len(list)}

\* A deviating memo that compares the whole editorial and not its link.
IsAlreadySaved_wholeEditorial(h) ==
  IF ~h.editorial.set THEN FALSE
  ELSE \E i \in 1..Len(h.savedAnalyses) :
         h.savedAnalyses[i].editorial = h.editorial.value

\* isAlreadySaved
IsAlreadySaved(h) ==
  IF ~h.editorial.set THEN FALSE
  ELSE h.editorial.value.link \in SavedLinks(h.savedAnalyses)

\* The request with index i removed from those in flight.
Without(reqs, i) == SubSeq(reqs, 1, i - 1) \o SubSeq(reqs, i + 1, Len(reqs))

\* ------------------------------------------------ page: the handlers
\* A deviating load effect whose catch clause removes the item it could not
\* parse.
LoadSaved_removesBadItem ==
  \E t \in DOMAIN home :
    /\ ~home[t].mounted
    /\ home' = [home EXCEPT
         ![t].mounted = TRUE,
         ![t].savedAnalyses =
            IF localStorage.set /\ localStorage.value /= EmptyText
               /\ ~ParseThrows(localStorage.value)
            THEN Parse(localStorage.value) ELSE @]
    /\ localStorage' =
         IF localStorage.set /\ localStorage.value /= EmptyText
            /\ ParseThrows(localStorage.value)
         THEN None ELSE localStorage
    /\ UNCHANGED <<requests, lastWrite>>
    /\ UNCHANGED <<cvars, gvars>>

\* Lines 75-84, the load effect: the stored item, if there is one and it
\* parses, replaces the saved list.
LoadSaved ==
  \E t \in DOMAIN home :
    /\ ~home[t].mounted
    /\ home' = [home EXCEPT
         ![t].mounted = TRUE,
         ![t].savedAnalyses =
            IF localStorage.set /\ localStorage.value /= EmptyText
               /\ ~ParseThrows(localStorage.value)
            THEN Parse(localStorage.value) ELSE @]
    /\ UNCHANGED <<localStorage, requests, lastWrite>>
    /\ UNCHANGED <<cvars, gvars>>

\* A deviating save that reads the stored list again before it writes.
SaveBase_reread(h) ==
  IF localStorage.set /\ ~ParseThrows(localStorage.value)
  THEN Parse(localStorage.value) ELSE h.savedAnalyses

\* Line 104: the list the new entry is put in front of.
SaveBase(h) == h.savedAnalyses

\* A deviating spread that puts the new entry behind the others.
Prepend_atTail(newSaved, list) == Append(list, newSaved)

\* Line 104: [newSaved, ...savedAnalyses]
Prepend(newSaved, list) == <<newSaved>> \o list

\* Lines 87-110 behind the save button of lines 520-523, which is rendered
\* with the article and disabled while isAlreadySaved.
SaveCurrentAnalysis ==
  \E t \in DOMAIN home, id \in Ids, at \in Instants :
    LET h == home[t]
    IN  /\ h.mounted
        /\ h.editorial.set /\ h.aiAnalysis.set /\ h.bestPractice.set
        /\ ~IsAlreadySaved(h)
        /\ Len(h.savedAnalyses) < MaxSaved
        /\ IF ~h.editorial.set \/ ~h.aiAnalysis.set
           THEN UNCHANGED <<home, localStorage, lastWrite>>
           ELSE LET prep     == [r \in RoleSet |->
                                   Prop(h.aiAnalysis.value[r], "sourceText")]
                    newSaved == [id |-> id, editorial |-> h.editorial.value,
                                 prep |-> prep, savedAt |-> at]
                    updated  == Prepend(newSaved, SaveBase(h))
                IN  /\ home' = [home EXCEPT ![t].savedAnalyses = updated]
                    /\ localStorage' = Some(Stringify(updated))
                    /\ lastWrite' = [set |-> TRUE, tab |-> t, op |-> "save",
                                     entry |-> newSaved, id |-> id,
                                     listBefore |-> h.savedAnalyses,
                                     itemBefore |-> localStorage]
        /\ UNCHANGED requests
        /\ UNCHANGED <<cvars, gvars>>

\* Lines 113-117: deleteAnalysis(id).
DeleteAnalysis ==
  \E t \in DOMAIN home, id \in Ids :
    LET h       == home[t]
        updated == SelectSeq(h.savedAnalyses, LAMBDA a : a.id /= id)
    IN  /\ h.mounted
        /\ home' = [home EXCEPT ![t].savedAnalyses = updated]
        /\ localStorage' = Some(Stringify(updated))
        /\ lastWrite' = [set |-> TRUE, tab |-> t, op |-> "delete",
                         entry |-> None, id |-> id,
                         listBefore |-> h.savedAnalyses,
                         itemBefore |-> localStorage]
        /\ UNCHANGED requests
        /\ UNCHANGED <<cvars, gvars>>

\* Lines 126-136 behind the list button of lines 304-306: fetchEditorialList
\* up to its await.
FetchEditorialListStart ==
  \E t \in DOMAIN home :
    /\ home[t].mounted
    /\ ~home[t].isLoadingList
    /\ home' = [home EXCEPT
         ![t].isLoadingList = TRUE, ![t].error = None,
         ![t].editorialList = <<>>, ![t].selectedEditorial = None,
         ![t].editorial = None, ![t].aiAnalysis = None,
         ![t].bestPractice = None]
    /\ requests' = Append(requests, [tab |-> t, kind |-> "list", item |-> None])
    /\ UNCHANGED <<localStorage, lastWrite>>
    /\ UNCHANGED <<cvars, gvars>>

\* A deviating continuation that clears the flag at the end of the try block
\* and not in a finally clause.
FetchEditorialListSettle_noFinally ==
  \E i \in 1..Len(requests) :
    \E o \in PageOutcomes(ListBodies) :
      LET t == requests[i].tab
      IN  /\ requests[i].kind = "list"
          /\ home' = [home EXCEPT
               ![t].editorialList = IF o.kind = "ok" THEN o.body.editorials ELSE @,
               ![t].error = IF o.kind = "ok" THEN @ ELSE PageError(o),
               ![t].isLoadingList = IF o.kind = "ok" THEN FALSE ELSE @]
          /\ requests' = Without(requests, i)
          /\ UNCHANGED <<localStorage, lastWrite>>
          /\ UNCHANGED <<cvars, gvars>>

\* Lines 137-153: fetchEditorialList from the response on.
FetchEditorialListSettle ==
  \E i \in 1..Len(requests) :
    \E o \in PageOutcomes(ListBodies) :
      LET t == requests[i].tab
      IN  /\ requests[i].kind = "list"
          /\ home' = [home EXCEPT
               ![t].editorialList = IF o.kind = "ok" THEN o.body.editorials ELSE @,
               ![t].error = IF o.kind = "ok" THEN @ ELSE PageError(o),
               ![t].isLoadingList = FALSE]
          /\ requests' = Without(requests, i)
          /\ UNCHANGED <<localStorage, lastWrite>>
          /\ UNCHANGED <<cvars, gvars>>

\* Lines 157-165 behind an item button of lines 457-460, which is rendered
\* while a listing is shown and no article is, and disabled while
\* isLoadingDetail: fetchEditorialDetail up to its await.
FetchEditorialDetailStart ==
  \E t \in DOMAIN home :
    \E k \in 1..Len(home[t].editorialList) :
      LET item == home[t].editorialList[k]
      IN  /\ home[t].mounted
          /\ ~home[t].editorial.set
          /\ ~home[t].isLoadingDetail
          /\ home' = [home EXCEPT
               ![t].isLoadingDetail = TRUE, ![t].error = None,
               ![t].selectedEditorial = Some(item)]
          /\ requests' = Append(requests,
                                [tab |-> t, kind |-> "detail", item |-> Some(item)])
          /\ UNCHANGED <<localStorage, lastWrite>>
          /\ UNCHANGED <<cvars, gvars>>

\* Lines 166-184: fetchEditorialDetail from the response on.
FetchEditorialDetailSettle ==
  \E i \in 1..Len(requests) :
    /\ requests[i].kind = "detail"
    /\ \E o \in PageOutcomes(DetailBodies(requests[i].item.value.link)) :
         LET t == requests[i].tab
         IN  /\ home' = [home EXCEPT
                  ![t].editorial = IF o.kind = "ok" THEN Some(o.body.editorial) ELSE @,
                  ![t].aiAnalysis = IF o.kind = "ok" THEN Some(o.body.aiAnalysis) ELSE @,
                  ![t].bestPractice =
                     IF o.kind = "ok" THEN Some(o.body.bestPractice) ELSE @,
                  ![t].error = IF o.kind = "ok" THEN @ ELSE PageError(o),
                  ![t].isLoadingDetail = FALSE]
             /\ requests' = Without(requests, i)
    /\ UNCHANGED <<localStorage, lastWrite>>
    /\ UNCHANGED <<cvars, gvars>>

\* A deviating back button that leaves the best practice in place.
BackToList_keepPractice ==
  \E t \in DOMAIN home :
    /\ home[t].editorial.set /\ home[t].aiAnalysis.set /\ home[t].bestPractice.set
    /\ home' = [home EXCEPT
         ![t].editorial = None, ![t].aiAnalysis = None,
         ![t].selectedEditorial = None]
    /\ UNCHANGED <<localStorage, requests, lastWrite>>
    /\ UNCHANGED <<cvars, gvars>>

\* Lines 495-501, the back button, rendered with the article.
BackToList ==
  \E t \in DOMAIN home :
    /\ home[t].editorial.set /\ home[t].aiAnalysis.set /\ home[t].bestPractice.set
    /\ home' = [home EXCEPT
         ![t].editorial = None, ![t].aiAnalysis = None,
         ![t].bestPractice = None, ![t].selectedEditorial = None]
    /\ UNCHANGED <<localStorage, requests, lastWrite>>
    /\ UNCHANGED <<cvars, gvars>>

\* The items localStorage may hold when a tab opens the page: none, an empty
\* string, a text that is not JSON, an empty list, a list of one entry.
StoredEntry ==
  LET b == DetailBody(CHOOSE p \in PageArticles : Truthy(p.h2),
                      MkOrigin \o <<"/news/editorial/", "1", "1">>)
  IN  [id |-> <<"id", "1">>, editorial |-> b.editorial,
       prep |-> [r \in RoleSet |-> b.aiAnalysis[r].sourceText],
       savedAt |-> CHOOSE at \in Instants : TRUE]
StoredItems ==
  {None, Some(EmptyText), Some(InvalidJson), Some(Stringify(<<>>)),
   Some(Stringify(<<StoredEntry>>))}

\* One tab opens the page; the server variables are those of an idle server.
InitPage ==
  /\ InitServer
  /\ home = [t \in {"A"} |-> NewHome]
  /\ localStorage \in StoredItems
  /\ requests = <<>>
  /\ lastWrite = None

NextPage ==
  \/ LoadSaved
  \/ SaveCurrentAnalysis
  \/ DeleteAnalysis
  \/ FetchEditorialListStart
  \/ FetchEditorialListSettle
  \/ FetchEditorialDetailStart
  \/ FetchEditorialDetailSettle
  \/ BackToList

SpecPage == InitPage /\ [][NextPage]_vars

\* Two tabs that have both loaded the stored list and each show an article.
ShownArticles ==
  UNION {DetailBodies(MkOrigin \o <<"/news/editorial/", d, d>>) : d \in {"1", "2"}}
Showing(b, list) ==
  [NewHome EXCEPT
     !.mounted = TRUE, !.savedAnalyses = list,
     !.editorial = Some(b.editorial), !.aiAnalysis = Some(b.aiAnalysis),
     !.bestPractice = Some(b.bestPractice)]
InitTabs ==
  /\ InitServer
  /\ localStorage \in {Some(Stringify(<<>>)), Some(Stringify(<<StoredEntry>>))}
  /\ \E a \in ShownArticles, b \in ShownArticles :
       home = [t \in Tabs |->
                 Showing(IF t = "A" THEN a ELSE b, Parse(localStorage.value))]
  /\ requests = <<>>
  /\ lastWrite = None

NextTabs ==
  \/ SaveCurrentAnalysis
  \/ DeleteAnalysis

SpecTabs == InitTabs /\ [][NextTabs]_vars

\* ---------------------------------------------------------- claims
\* The sentences of the list, as a set.
SentenceSet == {sentences[i] : i \in 1..Len(sentences)}

\* The sourceText analyzePREP returned for role r.
SourceText(r) == result.value[r].sourceText

\* analyzePREP has returned.
Returned == pc = "done" /\ result.returned

\* The sentences of the list are pairwise distinct strings.
DistinctSentences ==
  \A i, j \in 1..Len(sentences) : i /= j => sentences[i] /= sentences[j]

\* The 1-based indices of the sentences matching each role's keywords.
TitleHits == {i \in 1..Len(sentences) : SomeIncluded(sentences[i], TitleKeywords(title))}
ReasonHits == {i \in 1..Len(sentences) : SomeIncluded(sentences[i], reasonKeywords)}
ExampleHits == {i \in 1..Len(sentences) : MatchesExample(sentences[i])}
ConclusionHits == {i \in 1..Len(sentences) : SomeIncluded(sentences[i], conclusionKeywords)}

\* C1: when analyzePREP has returned, each of the four sourceText values is
\* the empty string or an element of the sentence list, never undefined.
C1_SourceTextInList ==
  Returned => \A r \in RoleSet : SourceText(r) \in SentenceSet \cup {Empty}

\* C2: for a list of at least four pairwise distinct sentences the four
\* sourceText values are pairwise distinct.
C2_PairwiseDistinct ==
  (Returned /\ Len(sentences) >= 4 /\ DistinctSentences)
    => \A r1, r2 \in RoleSet : r1 /= r2 => SourceText(r1) /= SourceText(r2)

\* C3: when the sentence list is empty, all four sourceText values are the
\* empty string.
C3_EmptyListAllEmpty ==
  (Returned /\ sentences = <<>>) => \A r \in RoleSet : SourceText(r) = Empty

\* The length of s between its first and its last non-white-space character.
TrimmedLength(s) ==
  LET ink == {i \in 1..Len(s) : s[i] \notin WhiteSpace}
  IN  IF ink = {} THEN 0
      ELSE (CHOOSE i \in ink : \A j \in ink : i >= j)
             - (CHOOSE i \in ink : \A j \in ink : i <= j) + 1

\* C4: every element of the sentence list the splitter produced has trimmed
\* length strictly greater than 10.
C4_SentencesLongerThanTen ==
  pc = "split" => \A i \in 1..Len(sentences) : TrimmedLength(sentences[i]) > 10

\* C4 witness: the splitter kept a fragment with white space around it and
\* dropped another fragment of the same text.
C4_Witness ==
  /\ pc = "split"
  /\ Len(sentences) >= 1
  /\ Len(sentences) < Len(SplitAfterTerminator(content, 1, 1))
  /\ \E i \in 1..Len(sentences) : Len(sentences[i]) > TrimmedLength(sentences[i])

\* C5: a second call of analyzePREP on the same content and title returns
\* the same four sourceText values and summaries as the first.
C5_SameResultOnSecondCall ==
  (Returned /\ calls = 2) => result = prevResult

\* C5 witness: a second call has returned on an input where the first call
\* claimed sentences through both the preferred and the scanning path.
C5_Witness ==
  /\ Returned
  /\ calls = 2
  /\ \E r \in RoleSet : path[r] = "scan"
  /\ \E r \in RoleSet : path[r] = "exhausted"

\* The scenario of C6: exactly four sentences, no title keyword in any of
\* them, sentence 2 the first with a reason keyword, no example pattern,
\* sentence 4 the first with a conclusion keyword.
C6_Scenario ==
  /\ Returned
  /\ Len(sentences) = 4
  /\ TitleHits = {}
  /\ ReasonHits /= {} /\ \A i \in ReasonHits : i >= 2
  /\ 2 \in ReasonHits
  /\ ExampleHits = {}
  /\ ConclusionHits = {4}

\* The assignment C6 states: the four roles take sentences 1 to 4 in order.
C6_InOrder ==
  /\ SourceText("point1") = sentences[1]
  /\ SourceText("reason") = sentences[2]
  /\ SourceText("example") = sentences[3]
  /\ SourceText("point2") = sentences[4]

\* C6 as stated: in the scenario the roles take sentences 1 to 4 in order.
C6_Original == C6_Scenario => C6_InOrder

\* C6 as amended: in the scenario, when sentence 3 differs as a string from
\* sentences 1 and 2, the roles take sentences 1 to 4 in order.
C6_Amended ==
  (C6_Scenario /\ sentences[3] /= sentences[1] /\ sentences[3] /= sentences[2])
    => C6_InOrder

\* C6 witness: the scenario with sentence 3 different from sentences 1 and 2.
C6_Witness ==
  C6_Scenario /\ sentences[3] /= sentences[1] /\ sentences[3] /= sentences[2]

\* C7: with exactly two sentences, point1 and reason each hold a sentence of
\* the list, and example and point2 never obtain a sentence from the forward
\* scan: each ends with its preferred candidate unchanged.
C7_TwoSentences ==
  (Returned /\ Len(sentences) = 2)
    => /\ SourceText("point1") \in SentenceSet
       /\ SourceText("reason") \in SentenceSet
       /\ path["example"] /= "scan" /\ SourceText("example") = preferred["example"]
       /\ path["point2"] /= "scan" /\ SourceText("point2") = preferred["point2"]

\* C7 witness: two sentences, example left empty after a scan that found
\* nothing and point2 left with a text an earlier role already holds.
C7_Witness ==
  /\ Returned
  /\ Len(sentences) = 2
  /\ path["example"] = "exhausted" /\ SourceText("example") = Empty
  /\ path["point2"] = "exhausted"
  /\ SourceText("point2") \in {SourceText("point1"), SourceText("reason")}

\* The handler has returned its response.
Responded == gpc = "responded" /\ response /= None

\* Every upstream fetch of the request returned a 2xx page that parsed.
AllFetchesOk ==
  outcomes /= <<>> /\ \A i \in 1..Len(outcomes) : outcomes[i] = "ok"

\* Some upstream fetch of the request was rejected, returned a non-2xx
\* status or had an unreadable body.
SomeFetchFailed == \E i \in 1..Len(outcomes) : outcomes[i] /= "ok"

\* The fields of the success payload of a detail request.
PayloadKeys == {"editorial", "aiAnalysis", "bestPractice"}

\* C8: no exception leaves a handler; a request in which a fetch failed or
\* anything was thrown ends in a 500 response whose body has exactly the
\* fields error (the fixed message) and details (the thrown Error's message,
\* or "Unknown error" when the thrown value is no Error);
\* and a request in which nothing was thrown ends in a 200 response, whatever
\* happened to the request before it.
C8_FailuresBecome500 ==
  /\ gpc /= "crashed"
  /\ (Responded /\ (SomeFetchFailed \/ thrown /= None))
       => /\ thrown /= None
          /\ response.status = 500
          /\ DOMAIN response.body = {"error", "details"}
          /\ response.body.error = UserMessage
          /\ thrown.isError => response.body.details = thrown.message
          /\ ~thrown.isError => response.body.details = "Unknown error"
  /\ (Responded /\ thrown = None) => response.status = 200

\* C8 witness: the request after one that failed throws inside the narrative
\* generator and is answered with a 500.
C8_Witness ==
  /\ Responded
  /\ served = 2
  /\ prevStatus = 500
  /\ response.status = 500
  /\ thrown = ErrorOf(TypeErrorMessage)

\* The listing page of route.ts held no editorial link.
NoLinkFound ==
  handler = "hk" /\ Len(fetches) = 1 /\ AllFetchesOk /\ ~Truthy(link)

\* The title selectors of the article page yielded nothing.
TitleMissing ==
  /\ editorial /= None
  /\ IF handler = "hk" THEN ~Truthy(HkTitle(page)) ELSE ~Truthy(MkTitle(page))

\* The body selectors of the article page yielded nothing.
ContentMissing ==
  /\ editorial /= None
  /\ IF handler = "hk" THEN ~Truthy(HkContent(page)) ELSE ~Truthy(MkContent(page))

\* C9: when every fetch succeeded and a selector yielded nothing (no
\* editorial link, no title, no body), the response is a success and the
\* missing title or content is the placeholder text.
C9_SelectorMissSucceeds ==
  (Responded /\ AllFetchesOk /\ (NoLinkFound \/ TitleMissing \/ ContentMissing))
    => /\ response.status = 200
       /\ TitleMissing => response.body.editorial.title = TitlePlaceholder
       /\ ContentMissing => response.body.editorial.content = ContentPlaceholder

\* A successful response that is a listing of {title, link, date} items.
IsListing ==
  /\ DOMAIN response.body = {"editorials"}
  /\ \A i \in 1..Len(response.body.editorials) :
       DOMAIN response.body.editorials[i] = {"title", "link", "date"}

\* The request has run neither the classifier nor a fetch of anything but
\* the listing page of its handler.
ListingOnly ==
  /\ pc = "idle"
  /\ \A i \in 1..Len(fetches) :
       fetches[i] = IF handler = "hk" THEN HkListUrl ELSE MkListUrl

WrittenList ==
  IF lastWrite.op = "save" THEN <<lastWrite.entry>> \o lastWrite.listBefore
  ELSE SelectSeq(lastWrite.listBefore, LAMBDA a : a.id /= lastWrite.id)

\* The entries of a stored list, as they are written in the item.
StoredDocs(item) ==
  IF item.set /\ item.value.kind = "array"
  THEN {item.value.items[i] : i \in 1..Len(item.value.items)}
  ELSE {}

\* The entries of a list, as JSON.stringify writes them.
DocsOf(list) == {EntryDoc(list[i]) : i \in 1..Len(list)}

\* C11: two tabs that each loaded the stored list can race. Whenever a tab
\* saves or deletes, the item it writes is the JSON of the list built from the
\* list that tab held before, whatever the item held at that moment: no lock,
\* no version check and no read before the write keeps an entry another tab
\* stored in between.
C11_WriteIgnoresStoredItem ==
  lastWrite.set =>
    /\ localStorage = Some(Stringify(WrittenList))
    /\ home[lastWrite.tab].savedAnalyses = WrittenList
    /\ ~home[lastWrite.tab].error.set

\* C11, the lost update itself: the other tab holds an entry it saved, the
\* item held that entry just before the last write, the writing tab's own list
\* did not, and the item no longer holds it.
C11_Witness ==
  /\ lastWrite.set
  /\ \E u \in DOMAIN home \ {lastWrite.tab} :
       \E i \in 1..Len(home[u].savedAnalyses) :
         LET doc == EntryDoc(home[u].savedAnalyses[i])
         IN  /\ doc \in StoredDocs(lastWrite.itemBefore)
             /\ doc \notin DocsOf(lastWrite.listBefore)
             /\ doc \notin StoredDocs(localStorage)

ListingReturned ==
  Responded /\ response.status = 200 /\ "editorials" \in DOMAIN response.body

\* C13: the listing a listing fetch returns never holds two items with the
\* same link, whatever anchors the page holds (a relative and an absolute
\* href of one article included), and the set of seen links of a call starts
\* empty.
C13_NoDuplicateLinks ==
  /\ NewSeenLinks = {}
  /\ ListingReturned =>
       \A i, j \in 1..Len(response.body.editorials) :
         i /= j => response.body.editorials[i].link /= response.body.editorials[j].link

\* What holds of the upstream fetches of a request in either handler: a fetch
\* is awaited before the next is issued, and no fetch follows a failed one.
SequentialNoRetry ==
  /\ Len(outcomes) = Len(fetches)
  /\ \A i \in 1..(Len(outcomes) - 1) : outcomes[i] = "ok"

StartIndex(k) == <<0, 1, 2, Len(sentences) - 1>>[k]

\* Given the set c of texts claimed before the k-th role: the 1-based indices
\* of the sentences that role may still claim in its scan, whether its
\* preferred candidate is there to be claimed, and whether it finds nothing
\* to claim.
Unclaimed(k, c) ==
  {i \in 1..Len(sentences) : i - 1 >= StartIndex(k) /\ sentences[i] \notin c}
PreferredFree(k, c) ==
  Truthy(preferred[Roles[k]]) /\ preferred[Roles[k]] \notin c
Exhausted(k, c) == ~PreferredFree(k, c) /\ Unclaimed(k, c) = {}

\* The texts the roles before the k-th have claimed.
RECURSIVE ClaimedBefore(_)
ClaimedBefore(k) ==
  IF k = 1 THEN {}
  ELSE LET c == ClaimedBefore(k - 1)
       IN  c \cup (IF Exhausted(k - 1, c) THEN {} ELSE {source[Roles[k - 1]]})

\* What the k-th role receives according to the scan rule.
Expected(k, c) ==
  IF PreferredFree(k, c) THEN preferred[Roles[k]]
  ELSE IF Unclaimed(k, c) /= {}
       THEN LET free == Unclaimed(k, c)
            IN  sentences[CHOOSE i \in free : \A j \in free : i <= j]
       ELSE preferred[Roles[k]]

\* C15: a role whose preferred candidate is empty or already claimed receives
\* the lowest-index sentence at or after its fallback start index that no
\* earlier role has claimed, and keeps its preferred candidate only when there
\* is no such sentence; a later role's text equals an earlier role's text only
\* when the later role found nothing to claim.
C15_ScanRule ==
  Returned =>
    \A k \in 1..Len(Roles) :
      LET c == ClaimedBefore(k)
      IN  /\ source[Roles[k]] = Expected(k, c)
          /\ \A j \in 1..(k - 1) :
               source[Roles[k]] = source[Roles[j]] => Exhausted(k, c)

\* The 1-based indices of the sentences matching the k-th role's keywords,
\* and the 1-based index of its positional fallback.
HitsOf(k) ==
  CASE k = 1 -> TitleHits [] k = 2 -> ReasonHits
    [] k = 3 -> ExampleHits [] k = 4 -> ConclusionHits
PositionOf(k) == <<1, 2, 3, Len(sentences)>>[k]

\* The preferred candidate of the k-th role as the claim describes it.
CandidateOf(k) ==
  LET hits == HitsOf(k)
  IN  IF hits /= {}
      THEN sentences[CHOOSE i \in hits : \A j \in hits : i <= j]
      ELSE IF PositionOf(k) \in 1..Len(sentences) THEN sentences[PositionOf(k)]
      ELSE Empty

\* C16: each role's preferred candidate is the first sentence matching the
\* role's keywords, else the sentence at the role's position, else the empty
\* string; a role whose candidate is non-empty and claimed by no earlier role
\* ends with exactly that candidate; point1 always ends with its candidate.
C16_PreferredCandidate ==
  Returned =>
    /\ \A k \in 1..Len(Roles) :
         LET cand == CandidateOf(k)
         IN  /\ preferred[Roles[k]] = cand
             /\ (cand /= Empty /\ cand \notin ClaimedBefore(k))
                  => SourceText(Roles[k]) = cand
    /\ SourceText("point1") = preferred["point1"]

\* C16: a list in which the reason keywords match two different sentences,
\* the first of them not at reason's position, and in which some role did not
\* end with its candidate.
C16_Witness ==
  /\ Returned
  /\ \E i, j \in ReasonHits : sentences[i] /= sentences[j]
  /\ 2 \notin ReasonHits
  /\ \E k \in 1..Len(Roles) : SourceText(Roles[k]) /= CandidateOf(k)

\* ------------------------------------------------ claims about one tab
\* The saved list of the only tab of SpecPage.
SavedList == home["A"].savedAnalyses

\* C17: in a single tab a save puts the new entry at the head of the saved
\* list and keeps the entries that were there, in their order; a delete
\* removes exactly the entries with the given id and keeps the others in
\* their order, so a delete of an id no entry has leaves the list as it was;
\* after either, the stored item is the JSON of the saved list.
C17_SaveAndDelete ==
  lastWrite.set =>
    LET before == lastWrite.listBefore
        kept   == {i \in 1..Len(before) : before[i].id /= lastWrite.id}
    IN  /\ lastWrite.op = "save" =>
             /\ Len(SavedList) = Len(before) + 1
             /\ Head(SavedList) = lastWrite.entry
             /\ Tail(SavedList) = before
        /\ lastWrite.op = "delete" =>
             /\ Len(SavedList) = Cardinality(kept)
             /\ \A i \in 1..Len(SavedList) : SavedList[i].id /= lastWrite.id
             /\ \A i, j \in kept : i < j =>
                  \E a, b \in 1..Len(SavedList) :
                    a < b /\ SavedList[a] = before[i] /\ SavedList[b] = before[j]
             /\ \A i \in kept : \E a \in 1..Len(SavedList) : SavedList[a] = before[i]
             /\ kept = 1..Len(before) => SavedList = before
        /\ localStorage = Some(Stringify(SavedList))

\* C17: a delete took the head of a list of two entries with different ids
\* and left the other; the list had been built by two saves.
C17_Witness ==
  /\ lastWrite.set /\ lastWrite.op = "delete"
  /\ Len(lastWrite.listBefore) = 2
  /\ lastWrite.listBefore[1].id = lastWrite.id
  /\ lastWrite.listBefore[2].id /= lastWrite.id
  /\ SavedList = <<lastWrite.listBefore[2]>>

\* ------------------------------------------------ claims about the summaries
\* The summaries analyzePREP gives for the empty content and title t.
ReferenceSummary(r, t) == AnalyzePREP(Empty, t)[r].summary

\* The part of a title the claim lets point1's summary depend on.
QuotedPart(t) == Slice(StripTag(t), 0, 30)

\* C18: the four summaries do not depend on the content: they are those of
\* the empty content with the same title. Three of them are the same for
\* every title, and point1's is the same for titles that agree on the first
\* 30 characters of the tag-stripped title.
C18_SummariesIgnoreContent ==
  Returned =>
    /\ \A r \in RoleSet : result.value[r].summary = ReferenceSummary(r, title)
    /\ \A t2 \in SummaryTitles :
         /\ \A r \in RoleSet \ {"point1"} :
              result.value[r].summary = ReferenceSummary(r, t2)
         /\ QuotedPart(t2) = QuotedPart(title) =>
              result.value["point1"].summary = ReferenceSummary("point1", t2)
         /\ QuotedPart(t2) /= QuotedPart(title) =>
              result.value["point1"].summary /= ReferenceSummary("point1", t2)

\* C18: a content with sentences and a title longer than the quoted part,
\* with another title that differs from it only after that part.
C18_Witness ==
  /\ Returned
  /\ SourceText("point1") /= Empty
  /\ SourceText("point1") /= SourceText("reason")
  /\ Len(StripTag(title)) > 30
  /\ \E t2 \in SummaryTitles : t2 /= title /\ QuotedPart(t2) = QuotedPart(title)

\* ------------------------------------------------ claims about the narrative
\* The text a narrative field quotes between the fixed parts of its template.
Quoted(r) ==
  SubSeq(bestPractice.value[r], 2, Len(bestPractice.value[r]) - 1)

\* The thresholds the claim gives for the three roles.
ThresholdOf(r) ==
  CASE r = "reason" -> 80 [] r = "example" -> 80 [] r = "point2" -> 60

\* The 0-based indices of the spaces among the first m characters of a text.
SpacesWithin(text, m) == {i \in 0..(m - 1) : i < Len(text) /\ text[i + 1] = " "}

\* The number of characters kept of a text longer than m: up to its last
\* space among the first m characters when that space is not at index 0, else
\* m.
KeptLength(text, m) ==
  LET sp == SpacesWithin(text, m) \ {0}
  IN  IF sp = {} THEN m ELSE CHOOSE i \in sp : \A j \in sp : i >= j

\* C19: extractKeyPhrase returns a text no longer than maxLen unchanged; of a
\* longer text it returns a prefix of at most maxLen characters followed by
\* "...", the prefix ending before the last space of the first maxLen
\* characters when that space is at an index above 0; the result is never
\* longer than maxLen + 3; maxLen is 80 for reason and example, 60 for point2.
C19_ExtractKeyPhrase ==
  bestPractice.set =>
    \A r \in {"reason", "example", "point2"} :
      LET text == SourceText(r)
          m    == ThresholdOf(r)
      IN  /\ Len(text) <= m => Quoted(r) = text
          /\ Len(text) > m =>
               /\ KeptLength(text, m) <= m
               /\ Quoted(r) = SubSeq(text, 1, KeptLength(text, m)) \o <<".", ".", ".">>
          /\ Len(Quoted(r)) <= m + 3

\* C19: a text longer than 80 characters, cut at a space for point2 and at
\* another place for reason.
C19_Witness ==
  /\ bestPractice.set
  /\ Len(SourceText("reason")) > 80
  /\ KeptLength(SourceText("point2"), 60) \in 1..59
  /\ KeptLength(SourceText("reason"), 80) > 60
  /\ Quoted("point2") /= Quoted("reason")

\* ------------------------------------------------ claims about the display
\* C20: in every tab and under every interleaving of list refreshes, item
\* clicks, back clicks and responses, whenever an editorial is displayed an
\* item is selected and its link is the editorial's link.
C20_SelectionMatchesEditorial ==
  \A t \in DOMAIN home :
    home[t].editorial.set =>
      /\ home[t].selectedEditorial.set
      /\ home[t].selectedEditorial.value.link = home[t].editorial.value.link

\* ------------------------------------------------ claims about the article
\* The three values the article view is rendered from.
Article(h) == <<h.editorial, h.aiAnalysis, h.bestPractice>>
AllNull(h) == ~h.editorial.set /\ ~h.aiAnalysis.set /\ ~h.bestPractice.set
AllSet(h)  == h.editorial.set /\ h.aiAnalysis.set /\ h.bestPractice.set

\* The requests of one kind a tab has in flight.
InFlight(reqs, t, kind) ==
  {i \in 1..Len(reqs) : reqs[i].tab = t /\ reqs[i].kind = kind}

\* What one step of the page does to the three values of tab t: a list refresh
\* and the back button clear them, a detail response either sets all three,
\* the analysis and the best practice being those of the editorial, or stores
\* an error and leaves them, and nothing else touches them.
ArticleStep(t) ==
  LET h        == home[t]
      h2       == home'[t]
      refresh  == Cardinality(InFlight(requests', t, "list"))
                    > Cardinality(InFlight(requests, t, "list"))
      answered == Cardinality(InFlight(requests', t, "detail"))
                    < Cardinality(InFlight(requests, t, "detail"))
      back     == requests' = requests /\ Article(h2) /= Article(h)
  IN  /\ refresh => AllNull(h2)
      /\ back => AllSet(h) /\ AllNull(h2)
      /\ answered =>
           \/ /\ h2.error.set
              /\ Article(h2) = Article(h)
           \/ /\ h2.error = h.error
              /\ AllSet(h2)
              /\ LET e == h2.editorial.value
                     a == AnalyzePREP(e.content, e.title)
                 IN  /\ h2.aiAnalysis = Some(JsonAnalysis(a))
                     /\ h2.bestPractice = Some(MkBestPractice(e.title, a))
      /\ Article(h2) /= Article(h) => refresh \/ back \/ answered

\* C21: in every reachable state of the page editorial, aiAnalysis and
\* bestPractice are all null or all set; a list refresh and the back button
\* clear the three together, a successful detail response sets the three
\* together, and a failed detail response leaves the three as they were.
C21_AllOrNone ==
  /\ [](\A t \in DOMAIN home : AllNull(home[t]) \/ AllSet(home[t]))
  /\ [][\A t \in DOMAIN home : ArticleStep(t)]_vars

\* C21: the three values were cleared by a list refresh while a detail
\* request was in flight and then set together by its response: an article is
\* shown, no item is selected, and the refreshed listing has arrived.
C21_Witness ==
  /\ AllSet(home["A"])
  /\ ~home["A"].selectedEditorial.set
  /\ home["A"].editorialList /= <<>>
  /\ requests = <<>>

\* ------------------------------------------------ claims about the flags
\* C22: a tab never has two list requests or two detail requests in flight,
\* and isLoadingList / isLoadingDetail is true exactly while the tab's list /
\* detail request is in flight, whether the response then succeeds or fails.
C22_OneRequestPerFlag ==
  \A t \in DOMAIN home :
    /\ Cardinality(InFlight(requests, t, "list")) <= 1
    /\ Cardinality(InFlight(requests, t, "detail")) <= 1
    /\ home[t].isLoadingList <=> InFlight(requests, t, "list") /= {}
    /\ home[t].isLoadingDetail <=> InFlight(requests, t, "detail") /= {}

\* C22: a list request has failed and its flag is cleared while the detail
\* request started before it is still in flight with its flag set.
C22_Witness ==
  /\ home["A"].error.set
  /\ ~home["A"].isLoadingList
  /\ home["A"].isLoadingDetail
  /\ Len(requests) = 1
  /\ requests[1].kind = "detail"

\* ------------------------------------------------ claims about the links
\* C23: in a single tab that loads a stored list with no two entries of one
\* editorial link, no sequence of detail loads, saves through the save button
\* and deletes makes the saved list hold two entries with the same
\* editorial.link.
C23_NoDuplicateSavedLinks ==
  \A i, j \in 1..Len(SavedList) :
    i /= j => SavedList[i].editorial.link /= SavedList[j].editorial.link

\* C23: the list holds the stored entry and one saved on top of it, and the
\* article on display is the stored one, so that its save button is disabled.
C23_Witness ==
  /\ lastWrite.set /\ lastWrite.op = "save"
  /\ Len(SavedList) = 2
  /\ home["A"].editorial.set
  /\ home["A"].editorial.value.link = SavedList[2].editorial.link
  /\ IsAlreadySaved(home["A"])

\* ------------------------------------------------ claims about the listing
\* The title the callback finds for an anchor: the anchor's text, else the
\* heading inside it, else the heading in the closest li or div.
AnchorTitle(a) ==
  LET t1 == Trim(a.text)
      t2 == IF TitleTooShort(t1) THEN Trim(a.inner) ELSE t1
  IN  IF TitleTooShort(t2) THEN Trim(a.closest) ELSE t2

\* The link an item for href carries.
ItemLink(href) == IF StartsWith(href, Http) THEN href ELSE MkOrigin \o href

\* C24: when a listing is returned, every article href of the page for which
\* some anchor yields a title of at least 5 characters has an item in the
\* listing, in whatever order the anchors of that href stand on the page.
C24_TitledHrefListed ==
  ListingReturned =>
    \A k \in 1..Len(page.anchors) :
      LET a == page.anchors[k]
      IN  (MatchesArticleHref(a.href) /\ ~TitleTooShort(AnchorTitle(a))) =>
            \E i \in 1..Len(response.body.editorials) :
              response.body.editorials[i].link = ItemLink(a.href)

\* ------------------------------------------------ claims about the points
\* C25: for a non-empty sentence list the returned sourceText of point1 and of
\* point2 is a sentence of the list and not the empty string; that of reason
\* is a sentence of the list, or the empty string when the list has fewer than
\* 2 sentences and none matches a reason keyword; that of example is a
\* sentence of the list, or the empty string when the list has fewer than 3
\* sentences and none matches an example pattern.
C25_PointsNeverEmpty ==
  (Returned /\ sentences /= <<>>) =>
    /\ SourceText("point1") /= Empty /\ SourceText("point1") \in SentenceSet
    /\ SourceText("point2") /= Empty /\ SourceText("point2") \in SentenceSet
    /\ IF SourceText("reason") = Empty
       THEN Len(sentences) < 2 /\ ReasonHits = {}
       ELSE SourceText("reason") \in SentenceSet
    /\ IF SourceText("example") = Empty
       THEN Len(sentences) < 3 /\ ExampleHits = {}
       ELSE SourceText("example") \in SentenceSet

\* C25: the list holds one sentence, which the call for point1 has claimed;
\* the call for point2 found nothing free and returned the same sentence, and
\* reason and example are empty.
C25_Witness ==
  /\ Returned
  /\ Len(sentences) = 1
  /\ path["point2"] = "exhausted"
  /\ SourceText("point1") = sentences[1]
  /\ SourceText("point2") = sentences[1]
  /\ SourceText("reason") = Empty
  /\ SourceText("example") = Empty

\* ------------------------------------------------ claims about the load
\* getItem gives null, or a string JSON.parse rejects.
AbsentOrInvalid(item) == ~item.set \/ ParseThrows(item.value)

\* What one step does while the stored item is absent or invalid: the load
\* effect completes with the list still empty, the item as it was and no
\* error stored; the item changes only in a save or delete, which writes the
\* JSON of the list built from the empty list.
LoadStep(t) ==
  LET h  == home[t]
      h2 == home'[t]
  IN  /\ (~h.mounted /\ h2.mounted) =>
           /\ h2.savedAnalyses = <<>>
           /\ h2.error = h.error
           /\ localStorage' = localStorage
           /\ lastWrite' = lastWrite
      /\ (localStorage' /= localStorage /\ lastWrite'.set /\ lastWrite'.tab = t) =>
           /\ lastWrite'.itemBefore = localStorage
           /\ lastWrite'.listBefore = <<>>
           /\ h2.savedAnalyses =
                IF lastWrite'.op = "save" THEN <<lastWrite'.entry>> ELSE <<>>
           /\ localStorage' = Some(Stringify(h2.savedAnalyses))
      /\ localStorage' /= localStorage => lastWrite' /= lastWrite /\ lastWrite'.set

\* C26: while the stored item is absent or is not valid JSON, the saved list
\* of the tab is empty and no write has happened; loading completes without
\* an exception and leaves the item as it is; the item changes only in the
\* next save or delete, which replaces it with the JSON of a list built from
\* the empty saved list.
C26_LoadKeepsBadItem ==
  /\ [](AbsentOrInvalid(localStorage) =>
          /\ ~lastWrite.set
          /\ \A t \in DOMAIN home : home[t].savedAnalyses = <<>>)
  /\ [][AbsentOrInvalid(localStorage) => \A t \in DOMAIN home : LoadStep(t)]_vars

\* C26: the page was loaded over an item that is not JSON, and the first save
\* has replaced that item with the JSON of the list of the one saved entry.
C26_Witness ==
  /\ lastWrite.set /\ lastWrite.op = "save"
  /\ lastWrite.itemBefore = Some(InvalidJson)
  /\ lastWrite.listBefore = <<>>
  /\ home["A"].savedAnalyses = <<lastWrite.entry>>
  /\ localStorage = Some(Stringify(<<lastWrite.entry>>))

====
